---- MODULE Spec2Model ----
(***************************************************************************)
(* Model of the two fairness services of the repository:                   *)
(*   server/services/bias-detection/fairlearn-service.py  (stdin service)  *)
(*   server/services/bias-testing/fairlearn-service.py    (argv service)   *)
(*                                                                         *)
(* Every metric is a rational number kept as a normalised fraction         *)
(* [n, d]; d = 0 encodes the two IEEE values the code can produce besides  *)
(* finite numbers: NaN (0/0) and +inf (1/0).  Comparisons follow IEEE:     *)
(* every comparison with NaN is false.  Finite values are exact: the       *)
(* rounding of a float64 division is not represented.                      *)
(***************************************************************************)
EXTENDS Integers, Sequences, FiniteSets, TLC

VARIABLES service, request, pc, feature_idx, results, stdout, exitStatus

vars == <<service, request, pc, feature_idx, results, stdout, exitStatus>>

(***************************************************************************)
(* Bounds of the enumerated requests.                                      *)
(***************************************************************************)
MaxLen == 3
MaxLenT == 3
MaxLenD == 4
GridSteps == 20

(***************************************************************************)
(* Rational arithmetic with NaN and +inf.                                  *)
(***************************************************************************)
RECURSIVE GCD(_, _)
GCD(a, b) == IF b = 0 THEN a ELSE GCD(b, a % b)

NaN == [n |-> 0, d |-> 0]

Inf == [n |-> 1, d |-> 0]

IsNaN(x) == x.n = 0 /\ x.d = 0

\* n / d with d >= 0 and n >= 0, as numpy divides: 0/0 is NaN, x/0 is +inf.
Frac(n, d) ==
    IF d = 0 THEN (IF n = 0 THEN NaN ELSE Inf)
    ELSE LET g == GCD(n, d) IN [n |-> n \div g, d |-> d \div g]

Zero == Frac(0, 1)

One == Frac(1, 1)

Lt(a, b) == ~IsNaN(a) /\ ~IsNaN(b) /\ a.n * b.d < b.n * a.d

Gt(a, b) == Lt(b, a)

Ge(a, b) == ~IsNaN(a) /\ ~IsNaN(b) /\ a.n * b.d >= b.n * a.d

FEq(a, b) == ~IsNaN(a) /\ ~IsNaN(b) /\ a.n * b.d = b.n * a.d

\* a - b for finite a >= b; NaN propagates.
Sub(a, b) ==
    IF IsNaN(a) \/ IsNaN(b) THEN NaN
    ELSE Frac(a.n * b.d - b.n * a.d, a.d * b.d)

\* a / b for non-negative a, b; NaN propagates.
Div(a, b) ==
    IF IsNaN(a) \/ IsNaN(b) THEN NaN
    ELSE Frac(a.n * b.d, a.d * b.n)

\* a * b for non-negative finite a, b; NaN propagates.
Mul(a, b) ==
    IF IsNaN(a) \/ IsNaN(b) THEN NaN
    ELSE Frac(a.n * b.n, a.d * b.d)

\* abs()
Abs(x) == [n |-> IF x.n < 0 THEN 0 - x.n ELSE x.n, d |-> x.d]

\* Python's min(a, b) and max(a, b): the first argument unless the second is
\* strictly smaller (larger); with NaN the comparison is false.
PyMin(a, b) == IF Lt(b, a) THEN b ELSE a

PyMax(a, b) == IF Gt(b, a) THEN b ELSE a

\* min() / max() of a non-empty set of finite values.
SetMin(S) == CHOOSE x \in S : \A y \in S : Ge(y, x)

SetMax(S) == CHOOSE x \in S : \A y \in S : Ge(x, y)

\* math.isnan(v) replaced by a neutral value.
NanTo(v, neutral) == IF IsNaN(v) THEN neutral ELSE v

\* f"{v:.3f}": the value rounded to thousandths, as an integer count of them.
Fmt3(v) == IF v.d = 0 THEN 0 - 1 ELSE (2000 * v.n + v.d) \div (2 * v.d)

(***************************************************************************)
(* Group partition and per-group rates.                                    *)
(***************************************************************************)
SeqsUpTo(S, lo, hi) == UNION {[1..k -> S] : k \in lo..hi}

\* np.unique(sensitive_features)
UniqueGroups(sf) == {sf[i] : i \in DOMAIN sf}

\* sensitive_features == group
GroupMask(sf, g) == {i \in DOMAIN sf : sf[i] = g}

\* np.mean of the 0/1 array y restricted to the index set I (NaN when empty).
Mean(y, I) == Frac(Cardinality({i \in I : y[i] = 1}), Cardinality(I))

\* selection rate of group g
PositiveRate(pred, sf, g) == Mean(pred, GroupMask(sf, g))

\* fairlearn true_positive_rate / false_positive_rate of group g: a row of the
\* row-normalised confusion matrix, 0 when the row is empty.
OutcomeRate(pred, lab, sf, g, label) ==
    LET I == {i \in GroupMask(sf, g) : lab[i] = label}
    IN IF I = {} THEN Zero ELSE Mean(pred, I)

TPR(pred, lab, sf, g) == OutcomeRate(pred, lab, sf, g, 1)

FPR(pred, lab, sf, g) == OutcomeRate(pred, lab, sf, g, 0)

\* sklearn accuracy_score over the index set I
Accuracy(pred, lab, I) ==
    Frac(Cardinality({i \in I : pred[i] = lab[i]}), Cardinality(I))

\* sklearn precision_score(zero_division=0.0) over the index set I
Precision(pred, lab, I) ==
    LET P == {i \in I : pred[i] = 1}
    IN IF P = {} THEN Zero
       ELSE Frac(Cardinality({i \in P : lab[i] = 1}), Cardinality(P))

\* sklearn recall_score(zero_division=0.0) over the index set I
Recall(pred, lab, I) ==
    LET T == {i \in I : lab[i] = 1}
    IN IF T = {} THEN Zero
       ELSE Frac(Cardinality({i \in T : pred[i] = 1}), Cardinality(T))

\* sklearn f1_score(zero_division=0.0): 2TP / (2TP + FP + FN)
F1(pred, lab, I) ==
    LET tp == Cardinality({i \in I : pred[i] = 1 /\ lab[i] = 1})
        fp == Cardinality({i \in I : pred[i] = 1 /\ lab[i] = 0})
        fn == Cardinality({i \in I : pred[i] = 0 /\ lab[i] = 1})
    IN IF 2 * tp + fp + fn = 0 THEN Zero ELSE Frac(2 * tp, 2 * tp + fp + fn)

(***************************************************************************)
(* The fairlearn metrics the services call.                                *)
(***************************************************************************)
RateSet(pred, sf) == {PositiveRate(pred, sf, g) : g \in UniqueGroups(sf)}

TprSet(pred, lab, sf) == {TPR(pred, lab, sf, g) : g \in UniqueGroups(sf)}

FprSet(pred, lab, sf) == {FPR(pred, lab, sf, g) : g \in UniqueGroups(sf)}

\* MetricFrame.difference(): group_max - group_min
Spread(S) == Sub(SetMax(S), SetMin(S))

\* MetricFrame.ratio(): group_min / group_max (0/0 is NaN)
MinMaxRatio(S) == Div(SetMin(S), SetMax(S))

demographic_parity_difference(pred, sf) == Spread(RateSet(pred, sf))

demographic_parity_ratio(pred, sf) == MinMaxRatio(RateSet(pred, sf))

\* Mutant: only the true-positive rates compared.
equalized_odds_difference_tpr_only(pred, lab, sf) ==
    Spread(TprSet(pred, lab, sf))

\* max() over the [tpr, fpr] differences
equalized_odds_difference(pred, lab, sf) ==
    PyMax(Spread(TprSet(pred, lab, sf)), Spread(FprSet(pred, lab, sf)))

\* min() over the [tpr, fpr] ratios
equalized_odds_ratio(pred, lab, sf) ==
    PyMin(MinMaxRatio(TprSet(pred, lab, sf)), MinMaxRatio(FprSet(pred, lab, sf)))

(***************************************************************************)
(* bias-detection service: calculate_bias_metrics, generate_recommendations *)
(* and main.                                                                *)
(***************************************************************************)
SensitiveValues == {"A", "B", "C"}

\* positive_rates: one entry per unique group (every group is non-empty)
positive_rates(pred, sf) ==
    [g \in UniqueGroups(sf) |-> PositiveRate(pred, sf, g)]

RangeOf(f) == {f[x] : x \in DOMAIN f}

min_rate(rates) == IF DOMAIN rates # {} THEN SetMin(RangeOf(rates)) ELSE Zero

max_rate(rates) == IF DOMAIN rates # {} THEN SetMax(RangeOf(rates)) ELSE One

\* Mutant: the ratio taken as max_rate / min_rate.
disparate_impact_inverted(rates) ==
    IF Gt(max_rate(rates), Zero) THEN Div(max_rate(rates), min_rate(rates))
    ELSE Zero

\* min_rate / max_rate if max_rate > 0 else 0
disparate_impact(rates) ==
    IF Gt(max_rate(rates), Zero) THEN Div(min_rate(rates), max_rate(rates))
    ELSE Zero

\* Mutant: the equalized-odds test left out of the flag.
bias_detected_without_odds(dp_diff, eo_diff, di) ==
    \/ Gt(Abs(dp_diff), Frac(1, 10))
    \/ Lt(di, Frac(8, 10))
    \/ Gt(di, Frac(125, 100))

bias_detected(dp_diff, eo_diff, di) ==
    \/ Gt(Abs(dp_diff), Frac(1, 10))
    \/ Gt(Abs(eo_diff), Frac(1, 10))
    \/ Lt(di, Frac(8, 10))
    \/ Gt(di, Frac(125, 100))

\* Mutant: the disparate-impact test of the 'high' tier left out.
severity_without_impact(dp_diff, eo_diff, di) ==
    IF bias_detected(dp_diff, eo_diff, di)
    THEN IF Gt(Abs(dp_diff), Frac(2, 10)) \/ Gt(Abs(eo_diff), Frac(2, 10))
         THEN "high"
         ELSE IF \/ Gt(Abs(dp_diff), Frac(15, 100))
                 \/ Gt(Abs(eo_diff), Frac(15, 100))
                 \/ Lt(di, Frac(7, 10))
              THEN "medium"
              ELSE "low"
    ELSE "none"

severity(dp_diff, eo_diff, di) ==
    IF bias_detected(dp_diff, eo_diff, di)
    THEN IF \/ Gt(Abs(dp_diff), Frac(2, 10))
            \/ Gt(Abs(eo_diff), Frac(2, 10))
            \/ Lt(di, Frac(6, 10))
         THEN "high"
         ELSE IF \/ Gt(Abs(dp_diff), Frac(15, 100))
                 \/ Gt(Abs(eo_diff), Frac(15, 100))
                 \/ Lt(di, Frac(7, 10))
              THEN "medium"
              ELSE "low"
    ELSE "none"

\* One entry per appended recommendation: the rule and the value it prints.
generate_recommendations(dp_diff, eo_diff, di) ==
    (IF Gt(Abs(dp_diff), Frac(1, 10))
     THEN <<[rule |-> "demographic_parity", value |-> Fmt3(dp_diff)]>>
     ELSE <<>>)
    \o
    (IF Gt(Abs(eo_diff), Frac(1, 10))
     THEN <<[rule |-> "equalized_odds", value |-> Fmt3(eo_diff)]>>
     ELSE <<>>)
    \o
    (IF Lt(di, Frac(8, 10))
     THEN <<[rule |-> "disparate_impact_too_low", value |-> Fmt3(di)]>>
     ELSE IF Gt(di, Frac(125, 100))
          THEN <<[rule |-> "disparate_impact_too_high", value |-> Fmt3(di)]>>
          ELSE <<>>)

calculate_bias_metrics(pred, lab, sf) ==
    LET dp_diff == demographic_parity_difference(pred, sf)
        eo_diff == equalized_odds_difference(pred, lab, sf)
        rates   == positive_rates(pred, sf)
        di      == disparate_impact(rates)
        flagged == bias_detected(dp_diff, eo_diff, di)
        sev     == severity(dp_diff, eo_diff, di)
        dp_out  == NanTo(dp_diff, Zero)
        eo_out  == NanTo(eo_diff, Zero)
        di_out  == NanTo(di, One)
    IN [bias_detected |-> flagged,
        severity |-> sev,
        metrics |-> [demographic_parity_difference |-> dp_out,
                     equalized_odds_difference |-> eo_out,
                     disparate_impact_ratio |-> di_out],
        group_accuracies |->
            [g \in UniqueGroups(sf) |->
                NanTo(Accuracy(pred, lab, GroupMask(sf, g)), Zero)],
        overall_accuracy |-> NanTo(Accuracy(pred, lab, DOMAIN pred), Zero),
        positive_rates |-> [g \in DOMAIN rates |-> NanTo(rates[g], Zero)],
        recommendations |-> generate_recommendations(dp_out, eo_out, di_out)]

\* A printed or returned error object.
ErrorObject(msg) == [error |-> msg]

IsError(obj) == "error" \in DOMAIN obj

NoResults == [state |-> "none"]

\* A request field: absent, or present with a value.
Absent == [present |-> FALSE, v |-> <<>>]

\* an absent key whose values are strings / numbers
AbsentName == [present |-> FALSE, v |-> ""]

AbsentNumber == [present |-> FALSE, v |-> Zero]

Present(val) == [present |-> TRUE, v |-> val]

Field(S) == {Absent} \cup {Present(x) : x \in S}

\* input_data.get(key, [])
Get(req, key) == IF req[key].present THEN req[key].v ELSE <<>>

ExampleFair ==
    [form |-> "json",
     predictions |-> Present(<<1, 1, 0, 0, 1, 0, 1, 0>>),
     labels |-> Present(<<1, 0, 0, 1, 1, 0, 1, 1>>),
     sensitive_features |-> Present(<<"A", "A", "A", "A", "B", "B", "B", "B">>)]

ExampleBiased ==
    [form |-> "json",
     predictions |-> Present(<<1, 1, 1, 1, 0, 0, 0, 0>>),
     labels |-> Present(<<1, 1, 0, 0, 1, 1, 0, 0>>),
     sensitive_features |-> Present(<<"A", "A", "A", "A", "B", "B", "B", "B">>)]

\* positive rates 7/8 and 1: flagged by the parity difference alone (0.125)
ExampleLow ==
    [form |-> "json",
     predictions |-> Present(<<1, 1, 1, 1, 1, 1, 1, 0, 1>>),
     labels |-> Present(<<1, 1, 1, 1, 1, 1, 1, 1, 1>>),
     sensitive_features |->
        Present(<<"A", "A", "A", "A", "A", "A", "A", "A", "B">>)]

\* positive rates 5/6 and 1: parity difference 0.1667
ExampleMedium ==
    [form |-> "json",
     predictions |-> Present(<<1, 1, 1, 1, 1, 0, 1>>),
     labels |-> Present(<<1, 1, 1, 1, 1, 1, 1>>),
     sensitive_features |-> Present(<<"A", "A", "A", "A", "A", "A", "B">>)]

\* equal positive rates 1/2 and 1/2 with equal outcome rates
ExampleParity ==
    [form |-> "json",
     predictions |-> Present(<<1, 0, 1, 0>>),
     labels |-> Present(<<1, 0, 1, 0>>),
     sensitive_features |-> Present(<<"A", "A", "B", "B">>)]

DetectionExamples ==
    {ExampleFair, ExampleBiased, ExampleLow, ExampleMedium, ExampleParity}

DetectionRequests ==
    [form : {"json"},
     predictions : Field(SeqsUpTo({0, 1}, 0, MaxLen)),
     labels : Field(SeqsUpTo({0, 1}, 0, MaxLen)),
     sensitive_features : Field(SeqsUpTo(SensitiveValues, 0, MaxLen))]
    \cup DetectionExamples
    \cup {[form |-> "invalid_json", predictions |-> Absent, labels |-> Absent,
           sensitive_features |-> Absent]}

InitDetection ==
    /\ service = "detection"
    /\ request \in DetectionRequests
    /\ pc = "start"
    /\ feature_idx = 1
    /\ results = NoResults
    /\ stdout = <<>>
    /\ exitStatus = 0

\* main() of the bias-detection service, start to exit.
DetectionMain ==
    /\ service = "detection"
    /\ pc = "start"
    /\ LET predictions == Get(request, "predictions")
           labels == Get(request, "labels")
           sensitive_features == Get(request, "sensitive_features")
       IN IF request.form # "json"
          THEN /\ stdout' = <<ErrorObject("Invalid JSON input")>>
               /\ exitStatus' = 1
          ELSE IF predictions = <<>> \/ labels = <<>> \/ sensitive_features = <<>>
          THEN /\ stdout' = <<ErrorObject("Missing required input data")>>
               /\ exitStatus' = 1
          ELSE IF \/ Len(predictions) # Len(labels)
                  \/ Len(predictions) # Len(sensitive_features)
          THEN /\ stdout' = <<ErrorObject("Input arrays must have same length")>>
               /\ exitStatus' = 1
          ELSE /\ stdout' = <<calculate_bias_metrics(predictions, labels,
                                                     sensitive_features)>>
               /\ exitStatus' = 0
    /\ pc' = "done"
    /\ UNCHANGED <<service, request, feature_idx, results>>

NextDetection == DetectionMain

SpecDetection == InitDetection /\ [][NextDetection]_vars

(***************************************************************************)
(* bias-testing service: analyze_bias, calculate_disparate_impact, main.   *)
(***************************************************************************)
AttributeValues == {"A", "B"}

AttributeNames == <<"race", "gender">>

\* threshold: float = 0.8
DefaultThreshold == Frac(8, 10)

\* An error dict returned by a function's except clause or printed by main's.
ErrorDict(msg, type) == [error |-> msg, type |-> type]

\* input_data[key]: the keys among `keys` whose lookup raises KeyError
MissingKeys(req, keys) == {k \in keys : ~req[k].present}

\* results as analyze_bias builds it before the loop
InitialResults(pred, truth) ==
    [overall_metrics |->
        [accuracy |-> Accuracy(pred, truth, DOMAIN pred),
         precision |-> Precision(pred, truth, DOMAIN pred),
         recall |-> Recall(pred, truth, DOMAIN pred),
         f1_score |-> F1(pred, truth, DOMAIN pred)],
     bias_metrics |-> <<>>,
     group_metrics |-> <<>>,
     bias_detected |-> FALSE,
     violations |-> <<>>]

\* f"{v:.2f}": the value rounded to hundredths, as an integer count of them.
Fmt2(v) == IF v.d = 0 THEN 0 - 1 ELSE (200 * v.n + v.d) \div (2 * v.d)

\* "high" if ratio < 0.6 else "medium"
ViolationSeverity(ratio) == IF Lt(ratio, Frac(6, 10)) THEN "high" ELSE "medium"

Violation(feature_name, metric, value, threshold) ==
    [feature |-> feature_name,
     metric |-> metric,
     value |-> value,
     threshold |-> threshold,
     severity |-> ViolationSeverity(value),
     description |-> Fmt2(value)]

\* Mutant: the default threshold used whatever the caller supplied.
CheckViolation_default_threshold(feature_name, metric, value, threshold) ==
    IF Lt(value, DefaultThreshold)
    THEN <<Violation(feature_name, metric, value, threshold)>>
    ELSE <<>>

\* if ratio < threshold: the violation appended for the metric, if any
CheckViolation(feature_name, metric, value, threshold) ==
    IF Lt(value, threshold)
    THEN <<Violation(feature_name, metric, value, threshold)>>
    ELSE <<>>

\* whether the two checks of one loop iteration set results["bias_detected"]
FeatureFlags(dp_ratio, eo_ratio, threshold) ==
    Lt(dp_ratio, threshold) \/ Lt(eo_ratio, threshold)

\* Mutant: the flag assigned from the current feature alone.
FlagAfter_overwritten(before, dp_ratio, eo_ratio, threshold) ==
    FeatureFlags(dp_ratio, eo_ratio, threshold)

\* results["bias_detected"] after one loop iteration
FlagAfter(before, dp_ratio, eo_ratio, threshold) ==
    IF FeatureFlags(dp_ratio, eo_ratio, threshold) THEN TRUE ELSE before

GroupMetrics(pred, truth, sf) ==
    [g \in UniqueGroups(sf) |->
        [accuracy |-> Accuracy(pred, truth, GroupMask(sf, g)),
         precision |-> Precision(pred, truth, GroupMask(sf, g)),
         recall |-> Recall(pred, truth, GroupMask(sf, g))]]

BiasMetrics(pred, truth, sf) ==
    [demographic_parity_difference |-> demographic_parity_difference(pred, sf),
     demographic_parity_ratio |-> demographic_parity_ratio(pred, sf),
     equalized_odds_difference |-> equalized_odds_difference(pred, truth, sf),
     equalized_odds_ratio |-> equalized_odds_ratio(pred, truth, sf)]

\* One iteration of the loop over sensitive_features.items(), without failure.
AnalyzeOne(res, pred, truth, feature, threshold) ==
    LET sf == feature.values
        bm == BiasMetrics(pred, truth, sf)
    IN [overall_metrics |-> res.overall_metrics,
        bias_metrics |-> (feature.name :> bm) @@ res.bias_metrics,
        group_metrics |->
            (feature.name :> GroupMetrics(pred, truth, sf)) @@ res.group_metrics,
        bias_detected |->
            FlagAfter(res.bias_detected, bm.demographic_parity_ratio,
                      bm.equalized_odds_ratio, threshold),
        violations |->
            res.violations
            \o CheckViolation(feature.name, "demographic_parity_ratio",
                              bm.demographic_parity_ratio, threshold)
            \o CheckViolation(feature.name, "equalized_odds_ratio",
                              bm.equalized_odds_ratio, threshold)]

\* The fairlearn calls raise ValueError on a feature column whose length
\* differs from the predictions'.
FeatureFails(pred, feature) == Len(feature.values) # Len(pred)

Threshold(req) == IF req.threshold.present THEN req.threshold.v ELSE DefaultThreshold

Operation(req) == IF req.operation.present THEN req.operation.v ELSE "analyze_bias"

AnalyzeKeys == {"predictions", "ground_truth", "sensitive_features"}

DisparateKeys == {"predictions", "sensitive_feature", "privileged_group"}

\* main(): no argument, an argument that is no JSON, or an unknown operation.
TestingMainRejects ==
    /\ service = "testing"
    /\ pc = "start"
    /\ \/ request.form # "json"
       \/ Operation(request) \notin {"analyze_bias", "disparate_impact"}
    /\ IF request.form = "no_input"
       THEN /\ stdout' = <<ErrorObject("No input provided")>>
            /\ exitStatus' = 1
       ELSE IF request.form = "invalid_json"
       THEN /\ stdout' = <<ErrorDict("invalid JSON", "JSONDecodeError")>>
            /\ exitStatus' = 1
       ELSE /\ stdout' = <<ErrorObject("Unknown operation")>>
            /\ exitStatus' = 0
    /\ pc' = "done"
    /\ UNCHANGED <<service, request, feature_idx, results>>

\* main() dispatching to analyze_bias, up to the loop over the features.
AnalyzeBiasStart ==
    /\ service = "testing"
    /\ pc = "start"
    /\ request.form = "json"
    /\ Operation(request) = "analyze_bias"
    /\ IF MissingKeys(request, AnalyzeKeys) # {}
       THEN /\ stdout' = <<ErrorDict("missing key", "KeyError")>>
            /\ exitStatus' = 1
            /\ pc' = "done"
            /\ UNCHANGED results
       ELSE IF Len(request.predictions.v) # Len(request.ground_truth.v)
       THEN \* accuracy_score raises; analyze_bias returns the error dict
            /\ results' = ErrorDict("inconsistent numbers of samples", "ValueError")
            /\ stdout' = <<results'>>
            /\ exitStatus' = 0
            /\ pc' = "done"
       ELSE /\ results' = InitialResults(request.predictions.v,
                                         request.ground_truth.v)
            /\ pc' = "loop"
            /\ UNCHANGED <<stdout, exitStatus>>
    /\ UNCHANGED <<service, request, feature_idx>>

\* One iteration of the loop of analyze_bias.
AnalyzeFeature ==
    /\ service = "testing"
    /\ pc = "loop"
    /\ feature_idx <= Len(request.sensitive_features.v)
    /\ LET feature == request.sensitive_features.v[feature_idx]
       IN IF FeatureFails(request.predictions.v, feature)
          THEN /\ results' = ErrorDict("inconsistent numbers of samples",
                                       "ValueError")
               /\ stdout' = <<results'>>
               /\ exitStatus' = 0
               /\ pc' = "done"
               /\ UNCHANGED feature_idx
          ELSE /\ results' = AnalyzeOne(results, request.predictions.v,
                                        request.ground_truth.v, feature,
                                        Threshold(request))
               /\ feature_idx' = feature_idx + 1
               /\ UNCHANGED <<pc, stdout, exitStatus>>
    /\ UNCHANGED <<service, request>>

\* analyze_bias returns results and main prints them.
AnalyzeBiasReturn ==
    /\ service = "testing"
    /\ pc = "loop"
    /\ feature_idx > Len(request.sensitive_features.v)
    /\ stdout' = <<results>>
    /\ exitStatus' = 0
    /\ pc' = "done"
    /\ UNCHANGED <<service, request, feature_idx, results>>

\* Mutant: the division without the test for a zero privileged rate.
DisparateRatio_unguarded(unprivileged_rate, privileged_rate) ==
    Div(unprivileged_rate, privileged_rate)

\* Mutant: the ratio capped at 1.
DisparateRatio_capped(unprivileged_rate, privileged_rate) ==
    IF FEq(privileged_rate, Zero) THEN Zero
    ELSE PyMin(One, Div(unprivileged_rate, privileged_rate))

\* if privileged_positive_rate == 0: 0.0, else the quotient of the rates
DisparateRatio(unprivileged_rate, privileged_rate) ==
    IF FEq(privileged_rate, Zero) THEN Zero
    ELSE Div(unprivileged_rate, privileged_rate)

\* calculate_disparate_impact; numpy_bool tells that passes_four_fifths_rule
\* is a numpy.bool_ (the ratio came out of the numpy division).
calculate_disparate_impact(pred, sf, privileged_group) ==
    IF Len(pred) # Len(sf)
    THEN ErrorDict("boolean index did not match", "IndexError")
    ELSE
    LET privileged_mask == GroupMask(sf, privileged_group)
        unprivileged_mask == DOMAIN sf \ privileged_mask
        privileged_positive_rate == Mean(pred, privileged_mask)
        unprivileged_positive_rate == Mean(pred, unprivileged_mask)
        zero_rate == FEq(privileged_positive_rate, Zero)
        di == DisparateRatio(unprivileged_positive_rate, privileged_positive_rate)
        passes_four_fifths == Ge(di, Frac(8, 10))
    IN [disparate_impact_ratio |-> di,
        privileged_positive_rate |-> privileged_positive_rate,
        unprivileged_positive_rate |-> unprivileged_positive_rate,
        passes_four_fifths_rule |-> passes_four_fifths,
        bias_detected |-> ~passes_four_fifths,
        severity |-> IF passes_four_fifths THEN "none"
                     ELSE IF Lt(di, Frac(6, 10)) THEN "high" ELSE "medium",
        numpy_bool |-> ~zero_rate]

\* json.dumps(result) raises TypeError on a numpy.bool_ value.
Serializable(result) == IsError(result) \/ ~result.numpy_bool

\* main() dispatching to calculate_disparate_impact, start to exit.
DisparateImpactMain ==
    /\ service = "testing"
    /\ pc = "start"
    /\ request.form = "json"
    /\ Operation(request) = "disparate_impact"
    /\ IF MissingKeys(request, DisparateKeys) # {}
       THEN /\ stdout' = <<ErrorDict("missing key", "KeyError")>>
            /\ exitStatus' = 1
            /\ UNCHANGED results
       ELSE /\ results' = calculate_disparate_impact(request.predictions.v,
                                                     request.sensitive_feature.v,
                                                     request.privileged_group.v)
            /\ IF Serializable(results')
               THEN /\ stdout' = <<results'>>
                    /\ exitStatus' = 0
               ELSE /\ stdout' = <<ErrorDict("not JSON serializable", "TypeError")>>
                    /\ exitStatus' = 1
    /\ pc' = "done"
    /\ UNCHANGED <<service, request, feature_idx>>

(***************************************************************************)
(* Requests of the bias-testing service.                                   *)
(***************************************************************************)
\* The sensitive_features mappings over n examples, in declaration order.
AttributeMaps(n) ==
    UNION {{[i \in 1..k |-> [name |-> AttributeNames[i], values |-> vs[i]]] :
                vs \in [1..k -> [1..n -> AttributeValues]]} :
           k \in 0..Len(AttributeNames)}

TestingRequest(op, pred, truth, attrs, threshold, sf, privileged) ==
    [form |-> "json", operation |-> op, predictions |-> pred,
     ground_truth |-> truth, sensitive_features |-> attrs,
     threshold |-> threshold, sensitive_feature |-> sf,
     privileged_group |-> privileged]

Shorter(field) == Present(SubSeq(field.v, 1, Len(field.v) - 1))

ShorterAttribute(field, i) ==
    IF i > Len(field.v) THEN field
    ELSE Present([field.v EXCEPT ![i].values =
                     SubSeq(field.v[i].values, 1, Len(field.v[i].values) - 1)])

\* A well-formed request, or the request with one key dropped or one
\* sequence one element short.
Variant(req, v) ==
    CASE v = "well_formed" -> req
      [] v = "no_operation" -> [req EXCEPT !.operation = AbsentName]
      [] v = "no_predictions" -> [req EXCEPT !.predictions = Absent]
      [] v = "no_ground_truth" -> [req EXCEPT !.ground_truth = Absent]
      [] v = "no_sensitive_features" -> [req EXCEPT !.sensitive_features = Absent]
      [] v = "no_sensitive_feature" -> [req EXCEPT !.sensitive_feature = Absent]
      [] v = "no_privileged_group" -> [req EXCEPT !.privileged_group = AbsentName]
      [] v = "short_predictions" -> [req EXCEPT !.predictions = Shorter(@)]
      [] v = "short_ground_truth" -> [req EXCEPT !.ground_truth = Shorter(@)]
      [] v = "short_sensitive_feature" ->
            [req EXCEPT !.sensitive_feature = Shorter(@)]
      [] v = "short_attribute_1" ->
            [req EXCEPT !.sensitive_features = ShorterAttribute(@, 1)]
      [] v = "short_attribute_2" ->
            [req EXCEPT !.sensitive_features = ShorterAttribute(@, 2)]

AnalyzeVariants ==
    {"well_formed", "no_operation", "no_predictions", "no_ground_truth",
     "no_sensitive_features", "short_predictions", "short_ground_truth",
     "short_attribute_1", "short_attribute_2"}

DisparateVariants ==
    {"well_formed", "no_predictions", "no_sensitive_feature",
     "no_privileged_group", "short_predictions", "short_sensitive_feature"}

AnalyzeRequest(pred, truth, attrs, threshold) ==
    TestingRequest(Present("analyze_bias"), Present(pred), Present(truth),
                   Present(attrs), threshold, Absent, AbsentName)

OneAttribute(values) == <<[name |-> "race", values |-> values]>>

\* the example of the equal positive rates, as one attribute
AnalyzeExampleFair ==
    AnalyzeRequest(<<1, 1, 0, 0, 1, 0, 1, 0>>, <<1, 0, 0, 1, 1, 0, 1, 1>>,
                   OneAttribute(<<"A", "A", "A", "A", "B", "B", "B", "B">>),
                   AbsentNumber)

\* both ratios 2/3: below the default threshold, not below 0.6
AnalyzeExampleMedium ==
    AnalyzeRequest(<<1, 1, 0, 1>>, <<1, 1, 1, 1>>,
                   OneAttribute(<<"A", "A", "A", "B">>), AbsentNumber)

\* both ratios 3/4 against a caller-supplied threshold of 0.7
AnalyzeExampleAbove ==
    AnalyzeRequest(<<1, 1, 1, 0, 1>>, <<1, 1, 1, 1, 1>>,
                   OneAttribute(<<"A", "A", "A", "A", "B">>),
                   Present(Frac(7, 10)))

\* equal rates and equal outcome rates: no violation
AnalyzeExampleParity ==
    AnalyzeRequest(<<1, 0, 1, 0>>, <<1, 0, 1, 0>>,
                   OneAttribute(<<"A", "A", "B", "B">>), AbsentNumber)

AnalyzeExamples ==
    {AnalyzeExampleFair, AnalyzeExampleMedium, AnalyzeExampleAbove,
     AnalyzeExampleParity}

Thresholds == {AbsentNumber, Present(Frac(1, 2))}

RejectedRequests ==
    {[AnalyzeExampleFair EXCEPT !.form = "no_input"],
     [AnalyzeExampleFair EXCEPT !.form = "invalid_json"],
     [AnalyzeExampleFair EXCEPT !.operation = Present("unknown")]}

StartTesting ==
    /\ service = "testing"
    /\ pc = "start"
    /\ feature_idx = 1
    /\ results = NoResults
    /\ stdout = <<>>
    /\ exitStatus = 0

InitAnalyze ==
    /\ \/ \E n \in 1..MaxLenT :
            \E pred \in [1..n -> {0, 1}], truth \in [1..n -> {0, 1}],
               attrs \in AttributeMaps(n), th \in Thresholds,
               v \in AnalyzeVariants :
                request = Variant(AnalyzeRequest(pred, truth, attrs, th), v)
       \/ request \in AnalyzeExamples \cup RejectedRequests
    /\ StartTesting

InitDisparate ==
    /\ \E n \in 1..MaxLenD :
         \E pred \in [1..n -> {0, 1}], sf \in [1..n -> SensitiveValues],
            g \in SensitiveValues, v \in DisparateVariants :
             request = Variant(TestingRequest(Present("disparate_impact"),
                                              Present(pred), Absent, Absent,
                                              AbsentNumber, Present(sf),
                                              Present(g)), v)
    /\ StartTesting

NextAnalyze ==
    \/ TestingMainRejects
    \/ AnalyzeBiasStart
    \/ AnalyzeFeature
    \/ AnalyzeBiasReturn

NextDisparate == DisparateImpactMain

SpecAnalyze == InitAnalyze /\ [][NextAnalyze]_vars

SpecDisparate == InitDisparate /\ [][NextDisparate]_vars

Init == InitDetection \/ InitAnalyze \/ InitDisparate

Next ==
    \/ DetectionMain
    \/ TestingMainRejects
    \/ AnalyzeBiasStart
    \/ AnalyzeFeature
    \/ AnalyzeBiasReturn
    \/ DisparateImpactMain

Spec == Init /\ [][Next]_vars

(***************************************************************************)
(* Properties.                                                             *)
(***************************************************************************)
\* The bias-detection service has printed a metric report.
DetectionReport ==
    service = "detection" /\ pc = "done" /\ ~IsError(stdout[1])

\* The bias-testing service has printed the report of analyze_bias.
AnalyzeReport ==
    /\ service = "testing"
    /\ pc = "done"
    /\ request.form = "json"
    /\ Operation(request) = "analyze_bias"
    /\ ~IsError(stdout[1])

FlagRule(dp, eo, di) ==
    \/ Gt(Abs(dp), Frac(1, 10))
    \/ Gt(Abs(eo), Frac(1, 10))
    \/ Lt(di, Frac(8, 10))
    \/ Gt(di, Frac(125, 100))

\* C1: in calculate_bias_metrics bias_detected is true if and only if
\* |dp diff| > 0.1, or |eo diff| > 0.1, or the disparate-impact ratio is
\* < 0.8, or it is > 1.25.
C1_BiasFlagIffThreshold ==
    DetectionReport =>
        LET r == stdout[1]
            m == r.metrics
        IN r.bias_detected <=>
              FlagRule(m.demographic_parity_difference,
                       m.equalized_odds_difference, m.disparate_impact_ratio)

\* A report flagged by the equalized-odds difference alone.
C1_Witness ==
    /\ DetectionReport
    /\ stdout[1].bias_detected
    /\ ~Gt(stdout[1].metrics.demographic_parity_difference, Frac(1, 10))
    /\ ~Lt(stdout[1].metrics.disparate_impact_ratio, Frac(8, 10))
    /\ Gt(stdout[1].metrics.equalized_odds_difference, Frac(1, 10))

HighRule(dp, eo, di) ==
    Gt(Abs(dp), Frac(2, 10)) \/ Gt(Abs(eo), Frac(2, 10)) \/ Lt(di, Frac(6, 10))

MediumRule(dp, eo, di) ==
    Gt(Abs(dp), Frac(15, 100)) \/ Gt(Abs(eo), Frac(15, 100)) \/ Lt(di, Frac(7, 10))

\* The metric values k / GridSteps of [0, 1].
Grid == {Frac(k, GridSteps) : k \in 0..GridSteps}

\* C2: severity is 'none' exactly when bias is not flagged; when flagged it
\* is 'high' if |dp diff| > 0.2 or |eo diff| > 0.2 or impact < 0.6, otherwise
\* 'medium' if |dp diff| > 0.15 or |eo diff| > 0.15 or impact < 0.7, otherwise
\* 'low'; and from a 'high' configuration, moving the violated metric further
\* from fair (a larger difference, a smaller impact ratio) keeps 'high'.
C2_SeverityTiers ==
    DetectionReport =>
        LET r == stdout[1]
            dp == r.metrics.demographic_parity_difference
            eo == r.metrics.equalized_odds_difference
            di == r.metrics.disparate_impact_ratio
        IN /\ (r.severity = "none") <=> ~r.bias_detected
           /\ r.bias_detected =>
                r.severity = IF HighRule(dp, eo, di) THEN "high"
                             ELSE IF MediumRule(dp, eo, di) THEN "medium"
                             ELSE "low"
           /\ r.severity = "high" =>
                \A x \in Grid :
                    /\ (Gt(dp, Frac(2, 10)) /\ Ge(x, dp)) =>
                            severity(x, eo, di) = "high"
                    /\ (Gt(eo, Frac(2, 10)) /\ Ge(x, eo)) =>
                            severity(dp, x, di) = "high"
                    /\ (Lt(di, Frac(6, 10)) /\ Ge(di, x)) =>
                            severity(dp, eo, x) = "high"

\* A 'high' report whose violated metric can still grow: the impact ratio is
\* below 0.6 and above 0, the parity difference above 0.2 and below 1.
C2_Witness ==
    /\ DetectionReport
    /\ stdout[1].severity = "high"
    /\ Gt(stdout[1].metrics.demographic_parity_difference, Frac(2, 10))
    /\ Lt(stdout[1].metrics.demographic_parity_difference, One)
    /\ Lt(stdout[1].metrics.disparate_impact_ratio, Frac(6, 10))
    /\ Gt(stdout[1].metrics.disparate_impact_ratio, Zero)

\* C7 as stated: the example of the equal positive rates yields positive
\* rates 0.5 and 0.5, parity difference 0.0 and bias_detected = false.
C7_ExampleNotFlagged ==
    /\ (service = "detection" /\ pc = "done" /\ request = ExampleFair) =>
            /\ ~IsError(stdout[1])
            /\ stdout[1].positive_rates["A"] = Frac(1, 2)
            /\ stdout[1].positive_rates["B"] = Frac(1, 2)
            /\ stdout[1].metrics.demographic_parity_difference = Zero
            /\ stdout[1].bias_detected = FALSE
    /\ (service = "testing" /\ pc = "done" /\ request = AnalyzeExampleFair) =>
            /\ ~IsError(stdout[1])
            /\ stdout[1].bias_metrics["race"].demographic_parity_difference = Zero
            /\ stdout[1].bias_detected = FALSE

\* C7 amended: the example yields positive rates 0.5 and 0.5 and parity
\* difference 0.0, but the false-positive rates are 0.5 and 0.0, so the
\* equalized-odds difference is 0.5 (its ratio 0.0) and bias_detected = true.
C7_ExampleFlaggedByOdds ==
    /\ (service = "detection" /\ pc = "done" /\ request = ExampleFair) =>
            /\ ~IsError(stdout[1])
            /\ stdout[1].positive_rates["A"] = Frac(1, 2)
            /\ stdout[1].positive_rates["B"] = Frac(1, 2)
            /\ stdout[1].metrics.demographic_parity_difference = Zero
            /\ stdout[1].metrics.equalized_odds_difference = Frac(1, 2)
            /\ stdout[1].bias_detected = TRUE
    /\ (service = "testing" /\ pc = "done" /\ request = AnalyzeExampleFair) =>
            /\ ~IsError(stdout[1])
            /\ stdout[1].bias_metrics["race"].demographic_parity_difference = Zero
            /\ stdout[1].bias_metrics["race"].equalized_odds_difference = Frac(1, 2)
            /\ stdout[1].bias_metrics["race"].equalized_odds_ratio = Zero
            /\ stdout[1].bias_detected = TRUE

\* The example has been evaluated by calculate_bias_metrics.
C7_Witness ==
    /\ service = "detection"
    /\ pc = "done"
    /\ request = ExampleFair
    /\ stdout[1].severity = "high"

\* C8 as stated: with two groups of equal positive rate (both 0 included) the
\* parity difference is 0.0 and the min/max positive-rate ratio is 1.0.
C8_EqualRatesGiveParity ==
    /\ DetectionReport =>
        LET r == stdout[1]
            groups == DOMAIN r.positive_rates
        IN (Cardinality(groups) = 2 /\ Cardinality(RangeOf(r.positive_rates)) = 1)
            => /\ r.metrics.demographic_parity_difference = Zero
               /\ r.metrics.disparate_impact_ratio = One
    /\ AnalyzeReport =>
        \A i \in 1..Len(request.sensitive_features.v) :
            LET a == request.sensitive_features.v[i]
                pred == request.predictions.v
            IN (/\ Cardinality(UniqueGroups(a.values)) = 2
                /\ Cardinality(RateSet(pred, a.values)) = 1)
                => /\ stdout[1].bias_metrics[a.name].demographic_parity_difference
                        = Zero
                   /\ stdout[1].bias_metrics[a.name].demographic_parity_ratio = One

\* analyze_bias is in or past its loop and holds its results.
AnalyzeResults ==
    /\ service = "testing"
    /\ pc \in {"loop", "done"}
    /\ "violations" \in DOMAIN results

RatioMetrics == {"demographic_parity_ratio", "equalized_odds_ratio"}

\* The threshold of the request: the caller's, 0.8 by default.
RequestThreshold ==
    IF request.threshold.present THEN request.threshold.v ELSE Frac(8, 10)

\* C3: for every attribute analyze_bias has processed and each of the two
\* ratio metrics, a violation tagged with that attribute and metric is in the
\* list if and only if the metric's value is below the caller's threshold
\* (default 0.8); it records that value and threshold, and its severity is
\* 'high' if the value is < 0.6 and 'medium' otherwise.
C3_ViolationIffBelowThreshold ==
    AnalyzeResults =>
        LET vs == results.violations
            bm == results.bias_metrics
        IN /\ \A a \in DOMAIN bm : \A m \in RatioMetrics :
                LET hits == {j \in 1..Len(vs) :
                                vs[j].feature = a /\ vs[j].metric = m}
                IN /\ (hits # {}) <=> Lt(bm[a][m], RequestThreshold)
                   /\ Cardinality(hits) <= 1
                   /\ \A j \in hits :
                        /\ vs[j].value = bm[a][m]
                        /\ vs[j].threshold = RequestThreshold
                        /\ vs[j].severity =
                             IF Lt(bm[a][m], Frac(6, 10)) THEN "high" ELSE "medium"
           /\ \A j \in 1..Len(vs) :
                vs[j].feature \in DOMAIN bm /\ vs[j].metric \in RatioMetrics

\* A caller-supplied threshold decides: one ratio of an attribute is below
\* it, the other is not, though it is below the default 0.8.
C3_Witness ==
    /\ AnalyzeResults
    /\ pc = "done"
    /\ request.threshold.present
    /\ \E a \in DOMAIN results.bias_metrics :
         /\ Lt(results.bias_metrics[a].equalized_odds_ratio, RequestThreshold)
         /\ ~Lt(results.bias_metrics[a].demographic_parity_ratio, RequestThreshold)
         /\ Lt(results.bias_metrics[a].demographic_parity_ratio, Frac(8, 10))

\* C4: after any prefix of the attributes bias_detected is true if and only
\* if the violations list is non-empty, and if and only if one of the
\* attributes processed so far has a ratio below the threshold; the report
\* main prints is the results after the last attribute.
C4_FlagIsDisjunction ==
    /\ AnalyzeResults =>
        /\ results.bias_detected <=> (results.violations # <<>>)
        /\ results.bias_detected <=>
             \E a \in DOMAIN results.bias_metrics : \E m \in RatioMetrics :
                Lt(results.bias_metrics[a][m], RequestThreshold)
        /\ Cardinality(DOMAIN results.bias_metrics) = feature_idx - 1
    /\ AnalyzeReport =>
        /\ stdout[1] = results
        /\ feature_idx = Len(request.sensitive_features.v) + 1

\* The first attribute flagged bias, the second did not, and the report says
\* bias was detected.
C4_Witness ==
    /\ AnalyzeReport
    /\ Len(request.sensitive_features.v) = 2
    /\ stdout[1].bias_detected
    /\ \E m \in RatioMetrics : Lt(stdout[1].bias_metrics["race"][m], RequestThreshold)
    /\ \A m \in RatioMetrics :
         ~Lt(stdout[1].bias_metrics["gender"][m], RequestThreshold)

AllPresent(keys) == \A k \in keys : request[k].present

DetectionKeys == {"predictions", "labels", "sensitive_features"}

\* A detection request with a key absent or sequences of different lengths.
DetectionMalformed ==
    /\ service = "detection"
    /\ request.form = "json"
    /\ \/ ~AllPresent(DetectionKeys)
       \/ Len(request.predictions.v) # Len(request.labels.v)
       \/ Len(request.predictions.v) # Len(request.sensitive_features.v)

\* An analyze_bias request with a key absent or sequences of different lengths.
AnalyzeMalformed ==
    /\ service = "testing"
    /\ request.form = "json"
    /\ Operation(request) = "analyze_bias"
    /\ \/ ~AllPresent(AnalyzeKeys)
       \/ Len(request.predictions.v) # Len(request.ground_truth.v)
       \/ \E i \in 1..Len(request.sensitive_features.v) :
            Len(request.sensitive_features.v[i].values) # Len(request.predictions.v)

\* A disparate_impact request with a key absent or sequences of different
\* lengths.
DisparateMalformed ==
    /\ service = "testing"
    /\ request.form = "json"
    /\ Operation(request) = "disparate_impact"
    /\ \/ ~AllPresent(DisparateKeys)
       \/ Len(request.predictions.v) # Len(request.sensitive_feature.v)

\* C5 as stated: a request with a required field absent or with sequences of
\* mismatched lengths gets one printed error object, no metric report, and a
\* non-zero exit status, from both services and both operations.
C5_MalformedExitsNonZero ==
    (pc = "done" /\ (DetectionMalformed \/ AnalyzeMalformed \/ DisparateMalformed))
        => /\ Len(stdout) = 1
           /\ IsError(stdout[1])
           /\ exitStatus # 0

\* C6 as stated: when analyze_bias gets past its overall metrics, the report
\* holds the bias metrics and group metrics of every attribute whose own
\* evaluation does not fail, whether or not another attribute's fails.
C6_FailureIsolated ==
    (/\ service = "testing"
     /\ pc = "done"
     /\ request.form = "json"
     /\ Operation(request) = "analyze_bias"
     /\ AllPresent(AnalyzeKeys)
     /\ Len(request.predictions.v) = Len(request.ground_truth.v))
        => \A i \in 1..Len(request.sensitive_features.v) :
              LET a == request.sensitive_features.v[i]
              IN Len(a.values) = Len(request.predictions.v)
                    => /\ ~IsError(stdout[1])
                       /\ a.name \in DOMAIN stdout[1].bias_metrics
                       /\ a.name \in DOMAIN stdout[1].group_metrics

\* calculate_disparate_impact has returned its analysis.
DisparateResult ==
    /\ service = "testing"
    /\ pc = "done"
    /\ "disparate_impact_ratio" \in DOMAIN results

\* Both the privileged and the unprivileged partition hold an example.
BothPartitions ==
    LET mask == GroupMask(request.sensitive_feature.v, request.privileged_group.v)
    IN mask # {} /\ mask # DOMAIN request.sensitive_feature.v

\* C9 as stated: with both partitions non-empty the ratio lies in [0, 1]
\* whenever the privileged positive rate is > 0, and is exactly 0.0 when the
\* privileged positive rate is 0.
C9_RatioWithinUnitInterval ==
    (DisparateResult /\ BothPartitions) =>
        /\ Gt(results.privileged_positive_rate, Zero) =>
              /\ Ge(results.disparate_impact_ratio, Zero)
              /\ Ge(One, results.disparate_impact_ratio)
        /\ FEq(results.privileged_positive_rate, Zero) =>
              results.disparate_impact_ratio = Zero

\* C9 amended: with both partitions non-empty the ratio is the unprivileged
\* positive rate divided by the privileged one whenever the privileged rate
\* is > 0: it is >= 0, and <= 1 exactly when the unprivileged rate does not
\* exceed the privileged rate; it is exactly 0.0 when the privileged rate
\* is 0.
C9_RatioIsQuotient ==
    (DisparateResult /\ BothPartitions) =>
        /\ Gt(results.privileged_positive_rate, Zero) =>
              /\ results.disparate_impact_ratio =
                    Div(results.unprivileged_positive_rate,
                        results.privileged_positive_rate)
              /\ Ge(results.disparate_impact_ratio, Zero)
              /\ Ge(One, results.disparate_impact_ratio) <=>
                    Ge(results.privileged_positive_rate,
                       results.unprivileged_positive_rate)
        /\ FEq(results.privileged_positive_rate, Zero) =>
              results.disparate_impact_ratio = Zero

\* A ratio above 1: the unprivileged rate exceeds a positive privileged rate.
C9_Witness ==
    /\ DisparateResult
    /\ BothPartitions
    /\ Gt(results.privileged_positive_rate, Zero)
    /\ Gt(results.disparate_impact_ratio, One)

\* The attribute has exactly two values, the privileged group is one of
\* them, and both groups' positive rates are > 0.
TwoGroupsBothPositive ==
    /\ DisparateResult
    /\ Cardinality(UniqueGroups(request.sensitive_feature.v)) = 2
    /\ request.privileged_group.v \in UniqueGroups(request.sensitive_feature.v)
    /\ Gt(results.privileged_positive_rate, Zero)
    /\ Gt(results.unprivileged_positive_rate, Zero)

\* C10: for an attribute with exactly two values and both groups' positive
\* rates > 0, the call with the other group privileged divides the same two
\* rates the other way round, so the two ratios are reciprocal: their product
\* is 1 (over the exact rates).
C10_SwapIsReciprocal ==
    TwoGroupsBothPositive =>
        LET sf == request.sensitive_feature.v
            other == CHOOSE h \in UniqueGroups(sf) : h # request.privileged_group.v
            swapped == calculate_disparate_impact(request.predictions.v, sf, other)
        IN /\ swapped.privileged_positive_rate = results.unprivileged_positive_rate
           /\ swapped.unprivileged_positive_rate = results.privileged_positive_rate
           /\ Mul(results.disparate_impact_ratio, swapped.disparate_impact_ratio)
                = One

\* Two groups of different positive rates, both > 0.
C10_Witness ==
    /\ TwoGroupsBothPositive
    /\ Lt(results.disparate_impact_ratio, One)

RecommendationRules(r) ==
    {r.recommendations[j].rule : j \in 1..Len(r.recommendations)}

\* C11: in calculate_bias_metrics the multi-group disparate-impact ratio is
\* the smallest group positive rate over the largest (0 when the largest is
\* 0) and always lies in [0, 1]; so the '> 1.25' test never holds,
\* bias_detected is decided by the other three tests alone, and the
\* 'Disparate impact ratio too high' recommendation is never emitted.
C11_ImpactWithinUnitInterval ==
    DetectionReport =>
        LET r == stdout[1]
            di == r.metrics.disparate_impact_ratio
            lo == SetMin(RangeOf(r.positive_rates))
            hi == SetMax(RangeOf(r.positive_rates))
        IN /\ di = IF Gt(hi, Zero) THEN Div(lo, hi) ELSE Zero
           /\ Ge(di, Zero)
           /\ Ge(One, di)
           /\ ~Gt(di, Frac(125, 100))
           /\ r.bias_detected <=>
                \/ Gt(Abs(r.metrics.demographic_parity_difference), Frac(1, 10))
                \/ Gt(Abs(r.metrics.equalized_odds_difference), Frac(1, 10))
                \/ Lt(di, Frac(8, 10))
           /\ "disparate_impact_too_high" \notin RecommendationRules(r)

\* Groups of different positive rates, none 0: the ratio is strictly between
\* 0 and 1 and the disparate-impact recommendation emitted is 'too low'.
C11_Witness ==
    /\ DetectionReport
    /\ Gt(stdout[1].metrics.disparate_impact_ratio, Zero)
    /\ Lt(stdout[1].metrics.disparate_impact_ratio, One)
    /\ "disparate_impact_too_low" \in RecommendationRules(stdout[1])

====
